---- MODULE Spec2Model ----
(***************************************************************************)
(* Request orchestration of the image question box:                        *)
(*   - useAutoComplete  (src/q2/src/hooks/useAutoComplete.ts, 1-196)        *)
(*   - useGeminiChat    (src/q2/src/hooks/useAutoComplete.ts, 197-342)      *)
(*   - QuestionBox      (src/q2/src/components/common/QuestionBox.tsx)      *)
(*   - POST /api/gemini and POST /api/suggestions                           *)
(*                      (src/q2/src/app/api/gemini/route.ts)                *)
(*   - callGeminiVision (src/q2/src/lib/gemini.ts)                          *)
(* Texts are sequences of one-character strings, so that length, trim,     *)
(* lower-casing and substring tests are computed as the code computes      *)
(* them.  Messages and answers are opaque strings.                         *)
(* Both hooks stay mounted; a fetch is in flight from the step that starts *)
(* it to the step in which its continuation runs.                          *)
(***************************************************************************)
EXTENDS Integers, Sequences, FiniteSets, TLC

\* JavaScript null / undefined for a string-valued field.
Null ==
  "null"

(***************************************************************************)
(* Bounds of the model.                                                    *)
(***************************************************************************)
\* getSuggestions calls (debounce timers ever scheduled).
MaxCalls ==
  3

\* askQuestion calls.
MaxAsks ==
  2

\* handleImageSelect / handleImageClear calls.
MaxImageChanges ==
  2

(***************************************************************************)
(* String primitives.                                                      *)
(***************************************************************************)
Min(a, b) ==
  IF a < b THEN a ELSE b

\* String.prototype.toLowerCase on the characters the model uses.
toLowerChar(c) ==
  CASE c = "W" -> "w"
    [] c = "H" -> "h"
    [] c = "D" -> "d"
    [] c = "I" -> "i"
    [] c = "C" -> "c"
    [] c = "R" -> "r"
    [] c = "X" -> "x"
    [] OTHER -> c

toLowerCase(s) ==
  [i \in 1..Len(s) |-> toLowerChar(s[i])]

RECURSIVE trimStart(_)
trimStart(s) ==
  IF s # <<>> /\ Head(s) = " " THEN trimStart(Tail(s)) ELSE s

RECURSIVE trimEnd(_)
trimEnd(s) ==
  IF s # <<>> /\ s[Len(s)] = " " THEN trimEnd(SubSeq(s, 1, Len(s) - 1)) ELSE s

\* String.prototype.trim
trim(s) ==
  trimEnd(trimStart(s))

\* String.prototype.startsWith
startsWith(s, p) ==
  Len(p) <= Len(s) /\ SubSeq(s, 1, Len(p)) = p

\* String.prototype.includes
includes(s, sub) ==
  \E i \in 0..(Len(s) - Len(sub)) : SubSeq(s, i + 1, i + Len(sub)) = sub

\* Array.prototype.slice(0, n)
slice(s, n) ==
  SubSeq(s, 1, Min(n, Len(s)))

(***************************************************************************)
(* POST /api/suggestions: the tiered suggestion resolver.                  *)
(***************************************************************************)
patterns ==
  << [key |-> <<"w","h","a","t">>,
      suggestions |-> <<
        <<"W","h","a","t"," ","o","b","j","e","c","t","s"," ","a","r","e"," ","i","n"," ","t","h","i","s"," ","i","m","a","g","e","?">>,
        <<"W","h","a","t"," ","i","s"," ","t","h","e"," ","m","a","i","n"," ","s","u","b","j","e","c","t"," ","o","f"," ","t","h","i","s"," ","i","m","a","g","e","?">>,
        <<"W","h","a","t"," ","c","o","l","o","r","s"," ","a","r","e"," ","m","o","s","t"," ","p","r","o","m","i","n","e","n","t","?">>,
        <<"W","h","a","t"," ","i","s"," ","h","a","p","p","e","n","i","n","g"," ","i","n"," ","t","h","i","s"," ","s","c","e","n","e","?">>,
        <<"W","h","a","t"," ","t","e","x","t"," ","c","a","n"," ","y","o","u"," ","r","e","a","d","?">> >>],
     [key |-> <<"h","o","w">>,
      suggestions |-> <<
        <<"H","o","w"," ","m","a","n","y"," ","p","e","o","p","l","e"," ","a","r","e"," ","i","n"," ","t","h","i","s"," ","i","m","a","g","e","?">>,
        <<"H","o","w"," ","m","a","n","y"," ","o","b","j","e","c","t","s"," ","c","a","n"," ","y","o","u"," ","c","o","u","n","t","?">>,
        <<"H","o","w"," ","w","o","u","l","d"," ","y","o","u"," ","d","e","s","c","r","i","b","e"," ","t","h","e"," ","l","i","g","h","t","i","n","g","?">>,
        <<"H","o","w"," ","o","l","d"," ","d","o","e","s"," ","t","h","i","s"," ","a","p","p","e","a","r"," ","t","o"," ","b","e","?">> >>],
     [key |-> <<"w","h","e","r","e">>,
      suggestions |-> <<
        <<"W","h","e","r","e"," ","w","a","s"," ","t","h","i","s"," ","p","h","o","t","o"," ","t","a","k","e","n","?">>,
        <<"W","h","e","r","e"," ","i","s"," ","t","h","e"," ","m","a","i","n"," ","f","o","c","u","s","?">>,
        <<"W","h","e","r","e"," ","d","o"," ","y","o","u"," ","s","e","e"," ","t","e","x","t","?">> >>],
     [key |-> <<"d","e","s","c","r","i","b","e">>,
      suggestions |-> <<
        <<"D","e","s","c","r","i","b","e"," ","t","h","e"," ","s","c","e","n","e"," ","i","n"," ","d","e","t","a","i","l">>,
        <<"D","e","s","c","r","i","b","e"," ","t","h","e"," ","m","a","i","n"," ","s","u","b","j","e","c","t">>,
        <<"D","e","s","c","r","i","b","e"," ","t","h","e"," ","b","a","c","k","g","r","o","u","n","d">>,
        <<"D","e","s","c","r","i","b","e"," ","t","h","e"," ","c","o","l","o","r","s"," ","a","n","d"," ","l","i","g","h","t","i","n","g">> >>],
     [key |-> <<"i","d","e","n","t","i","f","y">>,
      suggestions |-> <<
        <<"I","d","e","n","t","i","f","y"," ","a","l","l"," ","o","b","j","e","c","t","s"," ","i","n"," ","t","h","i","s"," ","i","m","a","g","e">>,
        <<"I","d","e","n","t","i","f","y"," ","t","h","e"," ","m","a","i","n"," ","s","u","b","j","e","c","t">>,
        <<"I","d","e","n","t","i","f","y"," ","a","n","y"," ","t","e","x","t"," ","v","i","s","i","b","l","e">>,
        <<"I","d","e","n","t","i","f","y"," ","t","h","e"," ","s","e","t","t","i","n","g"," ","o","r"," ","l","o","c","a","t","i","o","n">> >>],
     [key |-> <<"c","o","u","n","t">>,
      suggestions |-> <<
        <<"C","o","u","n","t"," ","t","h","e"," ","n","u","m","b","e","r"," ","o","f"," ","p","e","o","p","l","e">>,
        <<"C","o","u","n","t"," ","t","h","e"," ","o","b","j","e","c","t","s"," ","v","i","s","i","b","l","e">>,
        <<"C","o","u","n","t"," ","h","o","w"," ","m","a","n","y"," ","i","t","e","m","s"," ","y","o","u"," ","s","e","e">> >>],
     [key |-> <<"r","e","a","d">>,
      suggestions |-> <<
        <<"R","e","a","d"," ","a","n","y"," ","t","e","x","t"," ","i","n"," ","t","h","i","s"," ","i","m","a","g","e">>,
        <<"R","e","a","d"," ","t","h","e"," ","s","i","g","n","s"," ","o","r"," ","l","a","b","e","l","s">>,
        <<"R","e","a","d"," ","w","h","a","t"," ","i","s"," ","w","r","i","t","t","e","n"," ","h","e","r","e">> >>] >>

defaultSuffixes ==
  << <<" ","d","o"," ","y","o","u"," ","s","e","e"," ","i","n"," ","t","h","i","s"," ","i","m","a","g","e","?">>,
     <<" ","i","s"," ","t","h","e"," ","m","a","i","n"," ","f","o","c","u","s"," ","h","e","r","e","?">>,
     <<" ","c","a","n"," ","y","o","u"," ","i","d","e","n","t","i","f","y","?">> >>

\* Index of the first table entry whose key occurs in lower, 0 if none.
firstPattern(lower) ==
  IF \E i \in 1..Len(patterns) : startsWith(lower, patterns[i].key) \/ includes(lower, patterns[i].key)
  THEN CHOOSE i \in 1..Len(patterns) :
         /\ startsWith(lower, patterns[i].key) \/ includes(lower, patterns[i].key)
         /\ \A j \in 1..(i - 1) :
              ~(startsWith(lower, patterns[j].key) \/ includes(lower, patterns[j].key))
  ELSE 0

\* getPatternBasedSuggestions going on to the next entry, and to the default
\* completions, when the filter of an entry leaves nothing.
getPatternBasedSuggestions_fallThrough(partial) ==
  LET lower == toLowerCase(partial)
      Matches(s) == startsWith(toLowerCase(s), lower) \/ includes(toLowerCase(s), lower)
      Short(s)   == Len(s) <= 100
      defaults   == [i \in 1..Len(defaultSuffixes) |-> partial \o defaultSuffixes[i]]
      hits       == { i \in 1..Len(patterns) :
                        /\ includes(lower, patterns[i].key)
                        /\ SelectSeq(patterns[i].suggestions, Matches) # <<>> }
  IN  IF hits # {}
      THEN LET k == CHOOSE i \in hits : \A j \in hits : i <= j
           IN  slice(SelectSeq(patterns[k].suggestions, Matches), 3)
      ELSE slice(SelectSeq(defaults, Short), 3)

\* getPatternBasedSuggestions with the default completions built from the
\* lower-cased partial.
getPatternBasedSuggestions_lowerDefaults(partial) ==
  LET lower == toLowerCase(partial)
      k     == firstPattern(lower)
      Matches(s) == startsWith(toLowerCase(s), lower) \/ includes(toLowerCase(s), lower)
      Short(s)   == Len(s) <= 100
      defaults   == [i \in 1..Len(defaultSuffixes) |-> lower \o defaultSuffixes[i]]
  IN  IF k # 0
      THEN slice(SelectSeq(patterns[k].suggestions, Matches), 3)
      ELSE slice(SelectSeq(defaults, Short), 3)

getPatternBasedSuggestions(partial) ==
  LET lower == toLowerCase(partial)
      k     == firstPattern(lower)
      Matches(s) == startsWith(toLowerCase(s), lower) \/ includes(toLowerCase(s), lower)
      Short(s)   == Len(s) <= 100
      defaults   == [i \in 1..Len(defaultSuffixes) |-> partial \o defaultSuffixes[i]]
  IN  IF k # 0
      THEN slice(SelectSeq(patterns[k].suggestions, Matches), 3)
      ELSE slice(SelectSeq(defaults, Short), 3)

(***************************************************************************)
(* Outcomes of the two external suggestion services.                       *)
(*   hf.kind:    "nokey"  HUGGING_FACE_API_KEY unset                       *)
(*               "error"  transport, HTTP-status or parsing failure        *)
(*               "nogen"  reply without data[0].generated_text             *)
(*               "text"   reply with generated_text = hf.text              *)
(*   local.kind: "nourl"  LOCAL_MODEL_API_URL unset                        *)
(*               "error"  transport failure or non-OK status               *)
(*               "list"   reply with suggestions = local.list              *)
(***************************************************************************)
\* callHuggingFaceModel accepting a candidate as long as the partial.
callHuggingFaceModel_atLeast(partial, hf) ==
  LET Accept(s) == Len(s) >= Len(partial) /\ Len(s) <= 100
      suggestions == IF hf.kind = "text" /\ hf.text # <<>> THEN << trim(hf.text) >> ELSE <<>>
  IN  IF hf.kind = "error" THEN <<>> ELSE slice(SelectSeq(suggestions, Accept), 3)

callHuggingFaceModel(partial, hf) ==
  LET Accept(s) == Len(s) > Len(partial) /\ Len(s) <= 100
      suggestions == IF hf.kind = "text" /\ hf.text # <<>> THEN << trim(hf.text) >> ELSE <<>>
  IN  IF hf.kind = "error" THEN <<>> ELSE slice(SelectSeq(suggestions, Accept), 3)

tryLocalModel(partial, local) ==
  CASE local.kind = "nourl" -> <<>>
    [] local.kind = "error" -> <<>>
    [] OTHER -> local.list

\* generateSuggestions with the local service tried before Hugging Face.
generateSuggestions_localFirst(partial, env) ==
  LET hfSuggestions    == callHuggingFaceModel(partial, env.hf)
      localSuggestions == tryLocalModel(partial, env.local)
  IN  IF Len(localSuggestions) > 0
      THEN [suggestions |-> localSuggestions, tiers |-> << "local" >>]
      ELSE IF env.hf.kind # "nokey" /\ Len(hfSuggestions) > 0
           THEN [suggestions |-> hfSuggestions, tiers |-> << "local", "hf" >>]
           ELSE [suggestions |-> getPatternBasedSuggestions(partial),
                 tiers |-> IF env.hf.kind # "nokey"
                           THEN << "local", "hf", "pattern" >>
                           ELSE << "local", "pattern" >>]

\* The list returned, and the tiers consulted, in order.
generateSuggestions(partial, env) ==
  LET hfSuggestions    == callHuggingFaceModel(partial, env.hf)
      localSuggestions == tryLocalModel(partial, env.local)
      tiers1           == IF env.hf.kind # "nokey" THEN << "hf" >> ELSE <<>>
  IN  IF env.hf.kind # "nokey" /\ Len(hfSuggestions) > 0
      THEN [suggestions |-> hfSuggestions, tiers |-> tiers1]
      ELSE IF Len(localSuggestions) > 0
           THEN [suggestions |-> localSuggestions, tiers |-> tiers1 \o << "local" >>]
           ELSE [suggestions |-> getPatternBasedSuggestions(partial),
                 tiers |-> tiers1 \o << "local", "pattern" >>]

\* The route handler; body is the JSON body of the request.
suggestionsPOST(partial, env) ==
  IF partial = <<>>
  THEN [ok |-> FALSE, success |-> FALSE, suggestions |-> <<>>, tiers |-> <<>>]
  ELSE IF Len(partial) < 3
       THEN [ok |-> TRUE, success |-> TRUE, suggestions |-> <<>>, tiers |-> <<>>]
       ELSE LET g == generateSuggestions(partial, env)
            IN  [ok |-> TRUE, success |-> TRUE, suggestions |-> g.suggestions, tiers |-> g.tiers]


(***************************************************************************)
(* Inputs.                                                                 *)
(***************************************************************************)
\* Values typed into the question box: "", "wh", "what".
Texts ==
  { <<>>, <<"w","h">>, <<"w","h","a","t">> }

\* Replies of the external suggestion services to one request.
TierEnvs ==
  { [hf |-> [kind |-> "nokey", text |-> <<>>], local |-> [kind |-> "nourl", list |-> <<>>]],
    [hf |-> [kind |-> "text", text |-> <<"w","h","a","t"," ","i","s"," ","i","t","?">>], local |-> [kind |-> "nourl", list |-> <<>>]],
    [hf |-> [kind |-> "error", text |-> <<>>], local |-> [kind |-> "error", list |-> <<>>]] }

\* Texts passed to the hook's getSuggestions: "ab ", "   ", "what".
HookTexts ==
  { <<"a","b"," ">>, <<" "," "," ">>, <<"w","h","a","t">> }

\* Behaviours of the external suggestion services towards the hook: both
\* unconfigured, the local service replying 4 suggestions (one repeated),
\* both failing.
HookEnvs ==
  { [hf |-> [kind |-> "nokey", text |-> <<>>], local |-> [kind |-> "nourl", list |-> <<>>]],
    [hf |-> [kind |-> "nokey", text |-> <<>>],
     local |-> [kind |-> "list", list |-> << <<"l","o","c","a","l"," ","o","n","e">>, <<"l","o","c","a","l"," ","t","w","o">>, <<"l","o","c","a","l"," ","o","n","e">>, <<"l","o","c","a","l"," ","t","h","r","e","e">> >>]],
    [hf |-> [kind |-> "error", text |-> <<>>], local |-> [kind |-> "error", list |-> <<>>]] }

\* A partial of 75 characters that contains no table key.
LongPartial ==
  [i \in 1..75 |-> "z"]

\* Partials posted to /api/suggestions: "", "wh", "what", "what obj",
\* "what z", "shower", "how many", "count how many", "what is it?", "xyz123",
\* "XYZ", and one of 75 characters.
Partials ==
  { <<>>, <<"w","h">>, <<"w","h","a","t">>, <<"w","h","a","t"," ","o","b","j">>, <<"w","h","a","t"," ","z">>, <<"s","h","o","w","e","r">>, <<"h","o","w"," ","m","a","n","y">>, <<"c","o","u","n","t"," ","h","o","w"," ","m","a","n","y">>, <<"w","h","a","t"," ","i","s"," ","i","t","?">>,
    <<"x","y","z","1","2","3">>, <<"X","Y","Z">>,
    LongPartial }

\* Outcomes of the Hugging Face request: no key, failure, a reply without
\* generated_text, "what is it? ", "hi", and a text of 101 characters.
HFOutcomes ==
  { [kind |-> "nokey", text |-> <<>>],
    [kind |-> "error", text |-> <<>>],
    [kind |-> "nogen", text |-> <<>>],
    [kind |-> "text", text |-> <<"w","h","a","t"," ","i","s"," ","i","t","?"," ">>],
    [kind |-> "text", text |-> <<"h","i">>],
    [kind |-> "text", text |-> [i \in 1..101 |-> "y"]] }

\* Outcomes of the local service request: no URL, failure, and replies of
\* 0, 2 and 4 suggestions (the last with a repeated entry).
LocalOutcomes ==
  { [kind |-> "nourl", list |-> <<>>],
    [kind |-> "error", list |-> <<>>],
    [kind |-> "list", list |-> <<>>],
    [kind |-> "list", list |-> << <<"l","o","c","a","l"," ","o","n","e">>, <<"l","o","c","a","l"," ","t","w","o">> >>],
    [kind |-> "list", list |-> << <<"l","o","c","a","l"," ","o","n","e">>, <<"l","o","c","a","l"," ","t","w","o">>, <<"l","o","c","a","l"," ","o","n","e">>, <<"l","o","c","a","l"," ","t","h","r","e","e">> >>] }

ResolveEnvs ==
  [hf : HFOutcomes, local : LocalOutcomes]

(***************************************************************************)
(* State.                                                                  *)
(***************************************************************************)
VARIABLES
  state,               \* useAutoComplete: AutoCompleteState
  debounceRef,         \* useAutoComplete: id of the timeout last scheduled, 0 = null
  abortControllerRef,  \* useAutoComplete: call id of the controller last created, 0 = null
  question,            \* QuestionBox: text of the question field
  timers,              \* pending timeouts: [id, text]
  requests,            \* fetchSuggestions invocations awaiting their fetch: [call, text, aborted]
  nextCall,            \* id of the next timeout
  fetchCalls,          \* history: fetchSuggestions invocations [call, text, last]
  sent,                \* history: requests sent to /api/suggestions [call, partial]
  chatState,           \* useGeminiChat: ChatState
  currentImage,        \* useGeminiChat: preview of the image, Null if none
  imageData,           \* useGeminiChat: ImageData, NoImageData if null
  asks,                \* askQuestion invocations awaiting a fetch
  nextAsk,             \* id of the next askQuestion invocation
  generation,          \* history: number of handleImageSelect / handleImageClear calls
  lastAsk,             \* history: the arguments of the last askQuestion call
  fetchFailed,         \* history: ids of the asks whose image fetch failed
  backendSent,         \* history: requests sent to /api/gemini [id, image, question]
  resolved,            \* the last request handled by POST /api/suggestions and its reply
  answered             \* the last request handled by POST /api/gemini and its reply

sugVars ==
  << state, debounceRef, abortControllerRef, question, timers, requests, nextCall,
     fetchCalls, sent >>

chatVars ==
  << chatState, currentImage, imageData, asks, nextAsk, generation, lastAsk, fetchFailed,
     backendSent >>

vars ==
  << state, debounceRef, abortControllerRef, question, timers, requests, nextCall,
     fetchCalls, sent, chatState, currentImage, imageData, asks, nextAsk, generation,
     lastAsk, fetchFailed, backendSent, resolved, answered >>

InitSug ==
  /\ state = [suggestions |-> <<>>, isLoading |-> FALSE, selectedIndex |-> -1,
              showSuggestions |-> FALSE]
  /\ debounceRef = 0
  /\ abortControllerRef = 0
  /\ question = <<>>
  /\ timers = {}
  /\ requests = {}
  /\ nextCall = 1
  /\ fetchCalls = {}
  /\ sent = {}

(***************************************************************************)
(* useAutoComplete.                                                        *)
(***************************************************************************)
\* emptied leaving the list and its visibility as they are.
emptied_keepItems(prev) ==
  [prev EXCEPT !.isLoading = FALSE]

\* emptied leaving isLoading as it is.
emptied_keepLoading(prev) ==
  [prev EXCEPT !.suggestions = <<>>, !.showSuggestions = FALSE]

\* The state written when a resolution yields nothing, fails or is aborted,
\* and for a text shorter than 3 characters.
emptied(prev) ==
  [prev EXCEPT !.suggestions = <<>>, !.showSuggestions = FALSE, !.isLoading = FALSE]

\* abortControllerRef.current.abort(): the fetch of that controller, if it is
\* still awaited, rejects with an AbortError.
abort(reqs) ==
  { IF r.call = abortControllerRef THEN [r EXCEPT !.aborted = TRUE] ELSE r : r \in reqs }

\* fetchSuggestions with the length test off by one (text.length < 2).
fetchSuggestions_threshold2(call, text) ==
  /\ fetchCalls' = fetchCalls \cup { [call |-> call, text |-> text, last |-> debounceRef] }
  /\ IF Len(text) < 2
     THEN /\ requests' = abort(requests)
          /\ state' = emptied(state)
          /\ UNCHANGED << abortControllerRef, sent >>
     ELSE /\ abortControllerRef' = call
          /\ state' = [state EXCEPT !.isLoading = TRUE]
          /\ requests' = abort(requests) \cup { [call |-> call, text |-> text, aborted |-> FALSE] }
          /\ sent' = sent \cup { [call |-> call, partial |-> trim(text)] }

\* fetchSuggestions(text) up to its first await; call is the id of the
\* timeout that invoked it.
fetchSuggestions(call, text) ==
  /\ fetchCalls' = fetchCalls \cup { [call |-> call, text |-> text, last |-> debounceRef] }
  /\ IF Len(text) < 3
     THEN /\ requests' = abort(requests)
          /\ state' = emptied(state)
          /\ UNCHANGED << abortControllerRef, sent >>
     ELSE /\ abortControllerRef' = call
          /\ state' = [state EXCEPT !.isLoading = TRUE]
          /\ requests' = abort(requests) \cup { [call |-> call, text |-> text, aborted |-> FALSE] }
          /\ sent' = sent \cup { [call |-> call, partial |-> trim(text)] }

\* getSuggestions without the clearTimeout: timeouts stack.
getSuggestions_noClearTimeout(text) ==
  /\ nextCall <= MaxCalls
  /\ timers' = timers \cup { [id |-> nextCall, text |-> text] }
  /\ debounceRef' = nextCall
  /\ nextCall' = nextCall + 1
  /\ UNCHANGED << state, abortControllerRef, requests, fetchCalls, sent >>

\* getSuggestions(text): clearTimeout of the pending timeout, then setTimeout.
getSuggestions(text) ==
  /\ nextCall <= MaxCalls
  /\ timers' = { t \in timers : t.id # debounceRef } \cup { [id |-> nextCall, text |-> text] }
  /\ debounceRef' = nextCall
  /\ nextCall' = nextCall + 1
  /\ UNCHANGED << state, abortControllerRef, requests, fetchCalls, sent >>

clearSuggestions ==
  /\ state' = [suggestions |-> <<>>, isLoading |-> FALSE, selectedIndex |-> -1,
               showSuggestions |-> FALSE]
  /\ UNCHANGED << debounceRef, abortControllerRef, timers, requests, nextCall, fetchCalls, sent >>

\* The 300 ms timeout t expires and its callback runs.
timerFire(t) ==
  /\ t \in timers
  /\ timers' = timers \ { t }
  /\ fetchSuggestions(t.id, t.text)
  /\ UNCHANGED << debounceRef, question, nextCall >>

\* The continuation of request r after its fetch: transport failure.
fetchRejected(r) ==
  /\ r \in requests
  /\ ~r.aborted
  /\ requests' = requests \ { r }
  /\ state' = emptied(state)
  /\ UNCHANGED << debounceRef, abortControllerRef, question, timers, nextCall, fetchCalls, sent >>

\* fetchReplied displaying the list of every successful reply, empty or not.
fetchReplied_alwaysShow(r, env) ==
  /\ r \in requests
  /\ ~r.aborted
  /\ requests' = requests \ { r }
  /\ LET data == suggestionsPOST(trim(r.text), env)
     IN  state' = IF data.ok /\ data.success
                  THEN [state EXCEPT !.suggestions = data.suggestions,
                                     !.showSuggestions = TRUE,
                                     !.selectedIndex = -1,
                                     !.isLoading = FALSE]
                  ELSE emptied(state)
  /\ UNCHANGED << debounceRef, abortControllerRef, question, timers, nextCall, fetchCalls, sent >>

\* The continuation of request r after its fetch: a reply of the route.
fetchReplied(r, env) ==
  /\ r \in requests
  /\ ~r.aborted
  /\ requests' = requests \ { r }
  /\ LET data == suggestionsPOST(trim(r.text), env)
     IN  state' = IF data.ok /\ data.success
                  THEN [state EXCEPT !.suggestions = data.suggestions,
                                     !.showSuggestions = Len(data.suggestions) > 0,
                                     !.selectedIndex = -1,
                                     !.isLoading = FALSE]
                  ELSE emptied(state)
  /\ UNCHANGED << debounceRef, abortControllerRef, question, timers, nextCall, fetchCalls, sent >>

\* The continuation of an aborted request r: the catch block.
fetchAborted(r) ==
  /\ r \in requests
  /\ r.aborted
  /\ requests' = requests \ { r }
  /\ state' = emptied(state)
  /\ UNCHANGED << debounceRef, abortControllerRef, question, timers, nextCall, fetchCalls, sent >>

\* The hook's getSuggestions called with any text.
onTextChanged(text) ==
  /\ getSuggestions(text)
  /\ UNCHANGED question

(***************************************************************************)
(* QuestionBox.                                                            *)
(***************************************************************************)
handleInputChange(value) ==
  /\ question' = value
  /\ IF Len(value) > 0 THEN getSuggestions(value) ELSE clearSuggestions


\* navigatedIndex wrapping between the last and the first item, never to -1.
navigatedIndex_wrapToItem(direction, i, n) ==
  IF direction = "down"
  THEN (IF i < n - 1 THEN i + 1 ELSE 0)
  ELSE (IF i > 0 THEN i - 1 ELSE n - 1)

\* newIndex of navigateSuggestions, from selectedIndex i in a list of n items.
navigatedIndex(direction, i, n) ==
  IF direction = "down"
  THEN (IF i < n - 1 THEN i + 1 ELSE -1)
  ELSE (IF i > -1 THEN i - 1 ELSE n - 1)

\* navigateSuggestions without the test of showSuggestions and of the length.
navigateSuggestions_unguarded(direction) ==
  LET n == Len(state.suggestions)
      i == state.selectedIndex
      newIndex == navigatedIndex(direction, i, n)
  IN  /\ state' = [state EXCEPT !.selectedIndex = newIndex]
      /\ UNCHANGED << debounceRef, abortControllerRef, timers, requests, nextCall, fetchCalls,
                      sent >>

\* navigateSuggestions(direction)
navigateSuggestions(direction) ==
  LET n == Len(state.suggestions)
      i == state.selectedIndex
      newIndex == navigatedIndex(direction, i, n)
  IN  /\ state' = IF ~state.showSuggestions \/ n = 0
                  THEN state
                  ELSE [state EXCEPT !.selectedIndex = newIndex]
      /\ UNCHANGED << debounceRef, abortControllerRef, timers, requests, nextCall, fetchCalls,
                      sent >>

\* The index selectSuggestion acts on; args is the argument list, << >> or << index >>.
selectSuggestionIndex(args) ==
  IF args # <<>> THEN args[1] ELSE state.selectedIndex

\* selectSuggestionReturn returning the first item whatever the index.
selectSuggestionReturn_first(args) ==
  LET selectedIndex == selectSuggestionIndex(args)
  IN  IF selectedIndex >= 0 /\ selectedIndex < Len(state.suggestions)
      THEN << state.suggestions[1] >>
      ELSE <<>>

\* The value selectSuggestion returns: << >> for null, << item >> otherwise.
selectSuggestionReturn(args) ==
  LET selectedIndex == selectSuggestionIndex(args)
  IN  IF selectedIndex >= 0 /\ selectedIndex < Len(state.suggestions)
      THEN << state.suggestions[selectedIndex + 1] >>
      ELSE <<>>

\* selectSuggestion hiding the list and resetting the index whatever it returns.
selectSuggestion_alwaysReset(args) ==
  /\ state' = [state EXCEPT !.showSuggestions = FALSE, !.selectedIndex = -1]
  /\ UNCHANGED << debounceRef, abortControllerRef, timers, requests, nextCall, fetchCalls,
                  sent >>

selectSuggestion(args) ==
  /\ state' = IF selectSuggestionReturn(args) # <<>>
              THEN [state EXCEPT !.showSuggestions = FALSE, !.selectedIndex = -1]
              ELSE state
  /\ UNCHANGED << debounceRef, abortControllerRef, timers, requests, nextCall, fetchCalls,
                  sent >>

\* hideSuggestions keeping the selected index.
hideSuggestions_keepIndex ==
  /\ state' = [state EXCEPT !.showSuggestions = FALSE]
  /\ UNCHANGED << debounceRef, abortControllerRef, timers, requests, nextCall, fetchCalls,
                  sent >>

hideSuggestions ==
  /\ state' = [state EXCEPT !.showSuggestions = FALSE, !.selectedIndex = -1]
  /\ UNCHANGED << debounceRef, abortControllerRef, timers, requests, nextCall, fetchCalls,
                  sent >>

(***************************************************************************)
(* POST /api/gemini and callGeminiVision.                                  *)
(*   g.kind: "nokey"   GEMINI_API_KEY unset                                *)
(*           "reject"  the request to the vision service fails, g.message  *)
(*           "http"    non-OK status, g.message the message reported       *)
(*           "reply"   OK; g.candidates, g.hasContent, g.text and          *)
(*                     g.finishReason describe candidates[0]               *)
(***************************************************************************)
NoKeyMessage ==
  "Gemini API key not found. Please set GEMINI_API_KEY in your environment variables."

SafetyMessage ==
  "Content was blocked due to safety filters. Try rephrasing your question."

RecitationMessage ==
  "Content was blocked due to recitation concerns. Try a different image or question."

NoValidResponseMessage ==
  "No valid response generated. Please try a different image or question."

callGeminiVision(image, q, g) ==
  CASE g.kind = "nokey"  -> [success |-> FALSE, data |-> Null, error |-> NoKeyMessage]
    [] g.kind = "reject" -> [success |-> FALSE, data |-> Null, error |-> g.message]
    [] g.kind = "http"   -> [success |-> FALSE, data |-> Null, error |-> g.message]
    [] OTHER ->
         IF g.candidates /\ g.hasContent
         THEN [success |-> TRUE, data |-> g.text, error |-> Null]
         ELSE IF g.candidates /\ g.finishReason = "SAFETY"
              THEN [success |-> FALSE, data |-> Null, error |-> SafetyMessage]
              ELSE IF g.candidates /\ g.finishReason = "RECITATION"
                   THEN [success |-> FALSE, data |-> Null, error |-> RecitationMessage]
                   ELSE [success |-> FALSE, data |-> Null, error |-> NoValidResponseMessage]

\* JSON values of the fields image and question of a request body: absent,
\* a number, or a string (text). The text of a value that is not a string is
\* the empty string of its field, "" for image and << >> for question.
JsonUndefined(empty) ==
  [type |-> "undefined", text |-> empty, num |-> 0]

JsonNumber(n, empty) ==
  [type |-> "number", text |-> empty, num |-> n]

JsonString(text) ==
  [type |-> "string", text |-> text, num |-> 0]

\* !v, for a value v whose empty string is written empty.
falsy(v, empty) ==
  CASE v.type = "undefined" -> TRUE
    [] v.type = "number"    -> v.num = 0
    [] OTHER                -> v.text = empty

\* POST without the test of the length of the question.
POST_noLengthTest(body, g) ==
  IF body.malformed
  THEN [success |-> FALSE, data |-> Null, error |-> "Internal server error. Please try again.",
        status |-> 500, called |-> FALSE]
  ELSE IF falsy(body.image, "") \/ falsy(body.question, <<>>)
       THEN [success |-> FALSE, data |-> Null, error |-> "Image and question are required",
             status |-> 400, called |-> FALSE]
       ELSE IF body.image.type # "string" \/ body.question.type # "string"
            THEN [success |-> FALSE, data |-> Null, error |-> "Invalid input format",
                  status |-> 400, called |-> FALSE]
            ELSE LET result == callGeminiVision(body.image.text, body.question.text, g)
                 IN  [success |-> result.success, data |-> result.data,
                      error |-> result.error,
                      status |-> IF result.success THEN 200 ELSE 500, called |-> TRUE]

\* The route handler of /api/gemini; body.malformed tells that request.json()
\* throws; called tells whether callGeminiVision was called.
POST(body, g) ==
  IF body.malformed
  THEN [success |-> FALSE, data |-> Null, error |-> "Internal server error. Please try again.",
        status |-> 500, called |-> FALSE]
  ELSE IF falsy(body.image, "") \/ falsy(body.question, <<>>)
       THEN [success |-> FALSE, data |-> Null, error |-> "Image and question are required",
             status |-> 400, called |-> FALSE]
       ELSE IF body.image.type # "string" \/ body.question.type # "string"
            THEN [success |-> FALSE, data |-> Null, error |-> "Invalid input format",
                  status |-> 400, called |-> FALSE]
            ELSE IF Len(body.question.text) > 500
                 THEN [success |-> FALSE, data |-> Null,
                       error |-> "Question too long (max 500 characters)",
                       status |-> 400, called |-> FALSE]
                 ELSE LET result == callGeminiVision(body.image.text, body.question.text, g)
                      IN  [success |-> result.success, data |-> result.data,
                           error |-> result.error,
                           status |-> IF result.success THEN 200 ELSE 500, called |-> TRUE]

\* The route handler on the body {image, question} that useGeminiChat sends:
\* two strings.
geminiPOST(image, q, g) ==
  POST([malformed |-> FALSE, image |-> JsonString(image), question |-> JsonString(q)], g)

GeminiOutcomes ==
  { [kind |-> "reply", candidates |-> TRUE, hasContent |-> TRUE, text |-> "a cat",
     finishReason |-> "STOP", message |-> Null],
    [kind |-> "reply", candidates |-> TRUE, hasContent |-> FALSE, text |-> Null,
     finishReason |-> "SAFETY", message |-> Null],
    [kind |-> "reply", candidates |-> TRUE, hasContent |-> FALSE, text |-> Null,
     finishReason |-> "RECITATION", message |-> Null],
    [kind |-> "reply", candidates |-> TRUE, hasContent |-> TRUE, text |-> "a ca",
     finishReason |-> "SAFETY", message |-> Null],
    [kind |-> "reject", candidates |-> FALSE, hasContent |-> FALSE, text |-> Null,
     finishReason |-> Null, message |-> ""],
    [kind |-> "nokey", candidates |-> FALSE, hasContent |-> FALSE, text |-> Null,
     finishReason |-> Null, message |-> Null] }

(***************************************************************************)
(* useGeminiChat.                                                          *)
(***************************************************************************)
\* imageData = null
NoImageData ==
  [file |-> FALSE, url |-> Null, preview |-> Null]

\* What ImageUploader passes to onImageSelect: a file read as a data URI, or a URL.
Images ==
  { [file |-> TRUE, url |-> Null, preview |-> "data:image/png;base64,AAAA"],
    [file |-> FALSE, url |-> "http://host/cat.png", preview |-> "http://host/cat.png"] }

\* The data URI the FileReader yields for the bytes fetched from a URL.
FetchedBase64 ==
  "data:image/png;base64,BBBB"

\* A question of 500 characters.
MaxQuestion ==
  [i \in 1..500 |-> "a"]

\* Bodies posted to /api/gemini: one that is not JSON, and every pair of an
\* image that is absent, 0, 5, "" or a data URI and a question that is absent,
\* 7, "", "hi", or of 500 or 501 characters.
GeminiBodies ==
  { [malformed |-> TRUE, image |-> JsonUndefined(""), question |-> JsonUndefined(<<>>)] } \cup
  [malformed : { FALSE },
   image : { JsonUndefined(""), JsonNumber(0, ""), JsonNumber(5, ""), JsonString(""),
             JsonString("data:image/png;base64,AAAA") },
   question : { JsonUndefined(<<>>), JsonNumber(7, <<>>), JsonString(<<>>),
                JsonString(<<"h","i">>), JsonString(MaxQuestion),
                JsonString([i \in 1..501 |-> "a"]) }]

\* A question of 501 characters.
LongQuestion ==
  [i \in 1..501 |-> "a"]

\* Questions passed to askQuestion: "", " ", "hi", and one of 501 characters.
Questions ==
  { <<>>, <<" ">>, <<"h","i">>, LongQuestion }

InitChat ==
  /\ chatState = [result |-> Null, isLoading |-> FALSE, error |-> Null]
  /\ currentImage = Null
  /\ imageData = NoImageData
  /\ asks = {}
  /\ nextAsk = 1
  /\ generation = 0
  /\ lastAsk = [id |-> 0, question |-> <<>>, hadImage |-> FALSE]
  /\ fetchFailed = {}
  /\ backendSent = {}

\* handleImageSelect keeping the result of the previous image.
handleImageSelect_keepResult(data) ==
  /\ generation < MaxImageChanges
  /\ generation' = generation + 1
  /\ currentImage' = data.preview
  /\ imageData' = data
  /\ chatState' = [chatState EXCEPT !.isLoading = FALSE, !.error = Null]
  /\ UNCHANGED << asks, nextAsk, lastAsk, fetchFailed, backendSent >>

handleImageSelect(data) ==
  /\ generation < MaxImageChanges
  /\ generation' = generation + 1
  /\ currentImage' = data.preview
  /\ imageData' = data
  /\ chatState' = [result |-> Null, isLoading |-> FALSE, error |-> Null]
  /\ UNCHANGED << asks, nextAsk, lastAsk, fetchFailed, backendSent >>

handleImageClear ==
  /\ generation < MaxImageChanges
  /\ generation' = generation + 1
  /\ currentImage' = Null
  /\ imageData' = NoImageData
  /\ chatState' = [result |-> Null, isLoading |-> FALSE, error |-> Null]
  /\ UNCHANGED << asks, nextAsk, lastAsk, fetchFailed, backendSent >>

\* askQuestion(q) up to its first await.
askQuestion(q) ==
  /\ nextAsk <= MaxAsks
  /\ nextAsk' = nextAsk + 1
  /\ lastAsk' = [id |-> nextAsk, question |-> q,
                 hadImage |-> ~(imageData = NoImageData \/ currentImage = Null)]
  /\ IF imageData = NoImageData \/ currentImage = Null
     THEN /\ chatState' = [chatState EXCEPT !.error = "Please select an image first"]
          /\ UNCHANGED << asks, backendSent >>
     ELSE /\ chatState' = [result |-> Null, isLoading |-> TRUE, error |-> Null]
          /\ IF ~imageData.file /\ imageData.url # Null
             THEN /\ asks' = asks \cup { [id |-> nextAsk, gen |-> generation,
                                          phase |-> "image", url |-> imageData.url,
                                          image |-> currentImage, question |-> trim(q)] }
                  /\ UNCHANGED backendSent
             ELSE /\ asks' = asks \cup { [id |-> nextAsk, gen |-> generation,
                                          phase |-> "backend", url |-> Null,
                                          image |-> currentImage, question |-> trim(q)] }
                  /\ backendSent' = backendSent \cup
                       { [id |-> nextAsk, image |-> currentImage, question |-> trim(q)] }
  /\ UNCHANGED << currentImage, imageData, generation, fetchFailed >>

\* The fetch of the image URL of ask a, the read of its body and its
\* conversion succeed (response.ok is not tested: a response of any status
\* is converted); the request to /api/gemini follows.
imageFetched(a) ==
  /\ a \in asks
  /\ a.phase = "image"
  /\ asks' = (asks \ { a }) \cup { [a EXCEPT !.phase = "backend", !.image = FetchedBase64] }
  /\ backendSent' = backendSent \cup
       { [id |-> a.id, image |-> FetchedBase64, question |-> a.question] }
  /\ UNCHANGED << chatState, currentImage, imageData, nextAsk, generation, lastAsk,
                  fetchFailed >>

\* imageFetchFailed with the failure swallowed: the preview is sent instead.
imageFetchFailed_swallowed(a) ==
  /\ a \in asks
  /\ a.phase = "image"
  /\ asks' = (asks \ { a }) \cup { [a EXCEPT !.phase = "backend"] }
  /\ fetchFailed' = fetchFailed \cup { a.id }
  /\ backendSent' = backendSent \cup { [id |-> a.id, image |-> a.image, question |-> a.question] }
  /\ UNCHANGED << chatState, currentImage, imageData, nextAsk, generation, lastAsk >>

\* The fetch of the image URL of ask a (or the read of its body) rejects.
imageFetchFailed(a) ==
  /\ a \in asks
  /\ a.phase = "image"
  /\ asks' = asks \ { a }
  /\ fetchFailed' = fetchFailed \cup { a.id }
  /\ chatState' = [result |-> Null, isLoading |-> FALSE,
                   error |-> "Failed to fetch image from URL"]
  /\ UNCHANGED << currentImage, imageData, nextAsk, generation, lastAsk, backendSent >>

\* askRejected leaving isLoading as it is.
askRejected_keepLoading(a, m) ==
  /\ a \in asks
  /\ a.phase = "backend"
  /\ asks' = asks \ { a }
  /\ chatState' = [chatState EXCEPT !.error = IF m # Null THEN m ELSE "Network error occurred"]
  /\ UNCHANGED << currentImage, imageData, nextAsk, generation, lastAsk, fetchFailed,
                  backendSent >>

\* The request of ask a to /api/gemini rejects with an Error of message m,
\* or, for m = Null, with a value that is not an Error.
askRejected(a, m) ==
  /\ a \in asks
  /\ a.phase = "backend"
  /\ asks' = asks \ { a }
  /\ chatState' = [result |-> Null, isLoading |-> FALSE,
                   error |-> IF m # Null THEN m ELSE "Network error occurred"]
  /\ UNCHANGED << currentImage, imageData, nextAsk, generation, lastAsk, fetchFailed,
                  backendSent >>

\* askReplied showing the same message for every failure.
askReplied_genericOnly(a, g) ==
  /\ a \in asks
  /\ a.phase = "backend"
  /\ asks' = asks \ { a }
  /\ LET data == geminiPOST(a.image, a.question, g)
     IN  chatState' = IF data.success
                      THEN [result |-> data.data, isLoading |-> FALSE, error |-> Null]
                      ELSE [result |-> Null, isLoading |-> FALSE,
                            error |-> "Failed to analyze image"]
  /\ UNCHANGED << currentImage, imageData, nextAsk, generation, lastAsk, fetchFailed,
                  backendSent >>

\* The reply of /api/gemini to ask a arrives.
askReplied(a, g) ==
  /\ a \in asks
  /\ a.phase = "backend"
  /\ asks' = asks \ { a }
  /\ LET data == geminiPOST(a.image, a.question, g)
     IN  chatState' = IF data.success
                      THEN [result |-> data.data, isLoading |-> FALSE, error |-> Null]
                      ELSE [result |-> Null, isLoading |-> FALSE,
                            error |-> IF data.error # Null /\ data.error # ""
                                      THEN data.error
                                      ELSE "Failed to analyze image"]
  /\ UNCHANGED << currentImage, imageData, nextAsk, generation, lastAsk, fetchFailed,
                  backendSent >>

\* retry resetting the whole chat state.
retry_resetAll ==
  /\ chatState' = [result |-> Null, isLoading |-> FALSE, error |-> Null]
  /\ UNCHANGED << currentImage, imageData, asks, nextAsk, generation, lastAsk, fetchFailed,
                  backendSent >>

retry ==
  /\ chatState' = [chatState EXCEPT !.error = Null]
  /\ UNCHANGED << currentImage, imageData, asks, nextAsk, generation, lastAsk, fetchFailed,
                  backendSent >>

(***************************************************************************)
(* QuestionBox, rendered by Home with onSubmit = askQuestion and           *)
(* disabled = isLoading.                                                   *)
(***************************************************************************)
\* Home: askQuestion is reached through a question box that is disabled
\* while isLoading.
ask(q) ==
  /\ ~chatState.isLoading
  /\ askQuestion(q)

\* handleSubmit leaving the question in the field.
handleSubmit_keepQuestion ==
  IF trim(question) # <<>> /\ ~chatState.isLoading
  THEN /\ askQuestion(trim(question))
       /\ question' = question
       /\ clearSuggestions
       /\ UNCHANGED << resolved, answered >>
  ELSE UNCHANGED vars

handleSubmit ==
  IF trim(question) # <<>> /\ ~chatState.isLoading
  THEN /\ askQuestion(trim(question))
       /\ question' = <<>>
       /\ clearSuggestions
       /\ UNCHANGED << resolved, answered >>
  ELSE UNCHANGED vars

handleKeyDown(key, shiftKey) ==
  IF state.showSuggestions /\ Len(state.suggestions) > 0
  THEN CASE key = "ArrowDown" ->
              navigateSuggestions("down") /\ UNCHANGED << question, chatVars, resolved, answered >>
         [] key = "ArrowUp" ->
              navigateSuggestions("up") /\ UNCHANGED << question, chatVars, resolved, answered >>
         [] key \in { "Tab", "Enter" } ->
              IF state.selectedIndex >= 0
              THEN LET selected == selectSuggestionReturn(<<>>)
                   IN  /\ selectSuggestion(<<>>)
                       /\ question' = IF selected # <<>> /\ selected[1] # <<>>
                                      THEN selected[1]
                                      ELSE question
                       /\ UNCHANGED << chatVars, resolved, answered >>
              ELSE IF key = "Enter" /\ ~shiftKey
                   THEN handleSubmit
                   ELSE UNCHANGED vars
         [] key = "Escape" ->
              hideSuggestions /\ UNCHANGED << question, chatVars, resolved, answered >>
         [] OTHER ->
              UNCHANGED vars
  ELSE IF key = "Enter" /\ ~shiftKey
       THEN handleSubmit
       ELSE UNCHANGED vars

handleSuggestionClick(index) ==
  LET selected == selectSuggestionReturn(<< index >>)
  IN  /\ selectSuggestion(<< index >>)
      /\ question' = IF selected # <<>> /\ selected[1] # <<>> THEN selected[1] ELSE question
      /\ UNCHANGED << chatVars, resolved, answered >>

handleClickOutside ==
  hideSuggestions /\ UNCHANGED << question, chatVars, resolved, answered >>

Keys ==
  { "ArrowDown", "ArrowUp", "Tab", "Enter", "Escape" }

(***************************************************************************)
(* Specifications.                                                         *)
(***************************************************************************)
\* No request has been handled by POST /api/suggestions yet.
InitResolve ==
  resolved = [called |-> FALSE, partial |-> <<>>,
              env |-> [hf |-> [kind |-> "nokey", text |-> <<>>],
                       local |-> [kind |-> "nourl", list |-> <<>>]],
              reply |-> [ok |-> FALSE, success |-> FALSE, suggestions |-> <<>>,
                         tiers |-> <<>>]]

\* POST /api/suggestions handles a request with body {partial} while the
\* external services behave as env.
resolve(partial, env) ==
  /\ resolved' = [called |-> TRUE, partial |-> partial, env |-> env,
                  reply |-> suggestionsPOST(partial, env)]
  /\ UNCHANGED << sugVars, chatVars, answered >>

\* No request has been handled by POST /api/gemini yet.
InitAnswer ==
  answered = [called |-> FALSE,
              body |-> [malformed |-> TRUE, image |-> JsonUndefined(""),
                        question |-> JsonUndefined(<<>>)],
              g |-> [kind |-> "nokey", candidates |-> FALSE, hasContent |-> FALSE,
                     text |-> Null, finishReason |-> Null, message |-> Null],
              reply |-> [success |-> FALSE, data |-> Null, error |-> Null, status |-> 0,
                         called |-> FALSE]]

\* POST /api/gemini handles a request with the given body while the vision
\* service behaves as g.
answer(body, g) ==
  /\ answered' = [called |-> TRUE, body |-> body, g |-> g, reply |-> POST(body, g)]
  /\ UNCHANGED << sugVars, chatVars, resolved >>

Init ==
  InitSug /\ InitChat /\ InitResolve /\ InitAnswer

NextSug ==
  \/ \E text \in Texts : onTextChanged(text) /\ UNCHANGED << chatVars, resolved, answered >>
  \/ \E value \in Texts : handleInputChange(value) /\ UNCHANGED << chatVars, resolved, answered >>
  \/ \E t \in timers : timerFire(t) /\ UNCHANGED << chatVars, resolved, answered >>
  \/ \E r \in requests : fetchRejected(r) /\ UNCHANGED << chatVars, resolved, answered >>
  \/ \E r \in requests, env \in TierEnvs : fetchReplied(r, env) /\ UNCHANGED << chatVars, resolved, answered >>
  \/ \E r \in requests : fetchAborted(r) /\ UNCHANGED << chatVars, resolved, answered >>
  \/ \E key \in Keys, shiftKey \in BOOLEAN : handleKeyDown(key, shiftKey)
  \/ \E index \in -1..3 : handleSuggestionClick(index)
  \/ handleClickOutside
  \/ handleSubmit

\* The question box as the only caller of the hook: getSuggestions is called
\* by handleInputChange alone.
NextBox ==
  \/ \E value \in Texts : handleInputChange(value) /\ UNCHANGED << chatVars, resolved, answered >>
  \/ \E t \in timers : timerFire(t) /\ UNCHANGED << chatVars, resolved, answered >>
  \/ \E r \in requests : fetchRejected(r) /\ UNCHANGED << chatVars, resolved, answered >>
  \/ \E r \in requests, env \in TierEnvs :
       fetchReplied(r, env) /\ UNCHANGED << chatVars, resolved, answered >>
  \/ \E r \in requests : fetchAborted(r) /\ UNCHANGED << chatVars, resolved, answered >>
  \/ \E key \in Keys, shiftKey \in BOOLEAN : handleKeyDown(key, shiftKey)
  \/ \E index \in -1..3 : handleSuggestionClick(index)
  \/ handleClickOutside
  \/ handleSubmit

NextChat ==
  \/ \E data \in Images : handleImageSelect(data) /\ UNCHANGED << sugVars, resolved, answered >>
  \/ handleImageClear /\ UNCHANGED << sugVars, resolved, answered >>
  \/ \E q \in Questions : ask(q) /\ UNCHANGED << sugVars, resolved, answered >>
  \/ \E a \in asks : imageFetched(a) /\ UNCHANGED << sugVars, resolved, answered >>
  \/ \E a \in asks : imageFetchFailed(a) /\ UNCHANGED << sugVars, resolved, answered >>
  \/ \E a \in asks, m \in { "Failed to fetch", Null } :
       askRejected(a, m) /\ UNCHANGED << sugVars, resolved, answered >>
  \/ \E a \in asks, g \in GeminiOutcomes : askReplied(a, g) /\ UNCHANGED << sugVars, resolved, answered >>
  \/ retry /\ UNCHANGED << sugVars, resolved, answered >>

\* useAutoComplete driven directly through getSuggestions, navigateSuggestions
\* and hideSuggestions.
NextHook ==
  \/ \E text \in HookTexts : onTextChanged(text) /\ UNCHANGED << chatVars, resolved, answered >>
  \/ \E t \in timers : timerFire(t) /\ UNCHANGED << chatVars, resolved, answered >>
  \/ \E r \in requests : fetchRejected(r) /\ UNCHANGED << chatVars, resolved, answered >>
  \/ \E r \in requests, env \in HookEnvs : fetchReplied(r, env) /\ UNCHANGED << chatVars, resolved, answered >>
  \/ \E r \in requests : fetchAborted(r) /\ UNCHANGED << chatVars, resolved, answered >>
  \/ \E direction \in { "down", "up" } :
       navigateSuggestions(direction) /\ UNCHANGED << question, chatVars, resolved, answered >>
  \/ hideSuggestions /\ UNCHANGED << question, chatVars, resolved, answered >>

NextResolve ==
  \E partial \in Partials, env \in ResolveEnvs : resolve(partial, env)

NextGemini ==
  \E body \in GeminiBodies, g \in GeminiOutcomes : answer(body, g)

Next ==
  NextSug \/ NextBox \/ NextChat \/ NextResolve \/ NextHook \/ NextGemini

\* The suggestion controller and the question box, no image ever selected.
SpecSug ==
  Init /\ [][NextSug]_vars

\* The question box and the hook it uses, no image ever selected.
SpecBox ==
  Init /\ [][NextBox]_vars

\* The suggestion hook alone, on texts with surrounding white space and on
\* every kind of reply of the endpoint.
SpecHook ==
  Init /\ [][NextHook]_vars

\* The image query pipeline alone.
SpecChat ==
  Init /\ [][NextChat]_vars

\* The image query endpoint alone, on every body and every behaviour of the
\* vision service.
SpecGemini ==
  Init /\ [][NextGemini]_vars

\* The suggestion endpoint alone, on every partial and every behaviour of
\* the external services.
SpecResolve ==
  Init /\ [][NextResolve]_vars

\* A pending timeout expires.
timerExpires ==
  \E t \in timers : timerFire(t) /\ UNCHANGED << chatVars, resolved, answered >>

\* The fetch of a suggestion request settles and its continuation runs.
requestSettles ==
  \E r \in requests :
    /\ \/ fetchRejected(r)
       \/ \E env \in HookEnvs : fetchReplied(r, env)
       \/ fetchAborted(r)
    /\ UNCHANGED << chatVars, resolved, answered >>

\* The suggestion hook where every pending timeout expires and every fetch
\* settles; getSuggestions is called MaxCalls times at most.
LiveHook ==
  SpecHook /\ WF_vars(timerExpires) /\ WF_vars(requestSettles)

\* The image fetch or the request of an ask settles and its continuation runs.
askSettles ==
  \E a \in asks :
    /\ \/ imageFetched(a)
       \/ imageFetchFailed(a)
       \/ \E m \in { "Failed to fetch", Null } : askRejected(a, m)
       \/ \E g \in GeminiOutcomes : askReplied(a, g)
    /\ UNCHANGED << sugVars, resolved, answered >>

\* The image query pipeline where every fetch and every request settles.
LiveChat ==
  SpecChat /\ WF_vars(askSettles)

Spec ==
  Init /\ [][Next]_vars

(***************************************************************************)
(* Properties.                                                             *)
(***************************************************************************)
\* The continuation of ask a runs in this step: a leaves asks.
Arrived(a) ==
  a \in asks /\ \A b \in asks' : b.id # a.id

\* C1: a reply (or image-fetch failure) of an ask started under an earlier
\* image generation is discarded on arrival: it does not change chatState.
C1_StaleReplyDiscarded ==
  [][\A a \in asks : (Arrived(a) /\ a.gen # generation) => chatState' = chatState]_vars

\* C2: the continuation of an aborted suggestion request changes none of
\* suggestions, isLoading, selectedIndex, showSuggestions.
C2_AbortedNeverWrites ==
  [][\A r \in requests : (r.aborted /\ r \notin requests') => state' = state]_vars

\* C3: the completion of the resolution of an earlier text never changes
\* suggestions once a later text has been passed to getSuggestions.
C3_OnlyLatestTextWrites ==
  [][\A r \in requests :
       (r \notin requests' /\ r.call < debounceRef) => state'.suggestions = state.suggestions]_vars

\* C4: fetchSuggestions is only ever invoked by the timeout of the
\* getSuggestions call that was the latest when it expired, at most once per
\* call, and every request (in flight or sent) is for the text of such a call.
C4_BurstLastTextOnly ==
  /\ \A f \in fetchCalls : f.call = f.last
  /\ \A f, g \in fetchCalls : f.call = g.call => f = g
  /\ \A r \in requests : \E f \in fetchCalls : f.call = r.call /\ f.text = r.text
  /\ \A m \in sent : \E f \in fetchCalls : f.call = m.call /\ trim(f.text) = m.partial

\* A burst of two calls whose first timeout never expired, the result of the
\* second being displayed.
C4_Witness ==
  /\ \E f \in fetchCalls :
       /\ f.call >= 2
       /\ \A g \in fetchCalls : g.call # f.call - 1
       /\ \E m \in sent : m.call = f.call
  /\ requests = {}
  /\ state.suggestions # <<>>

\* C5: when fetchSuggestions runs for a text shorter than 3 characters, no
\* request is sent or started and showSuggestions is false afterwards.
C5_ShortTextNoRequest ==
  [][\A f \in fetchCalls' \ fetchCalls :
       Len(f.text) < 3 =>
         /\ sent' = sent
         /\ \A r \in requests' : r.call # f.call
         /\ ~state'.showSuggestions]_vars

\* A short text was processed while suggestions of an earlier text were known.
C5_Witness ==
  /\ \E f \in fetchCalls : Len(f.text) < 3 /\ f.text # <<>>
  /\ sent # {}

\* C6: a getSuggestions call with a text shorter than 3 characters clears
\* suggestions, showSuggestions and isLoading and cancels every request in
\* flight in the step of the call.
C6_ShortTextImmediate ==
  [][\A t \in timers' \ timers :
       Len(t.text) < 3 =>
         /\ state'.suggestions = <<>>
         /\ ~state'.showSuggestions
         /\ ~state'.isLoading
         /\ \A r \in requests' : r.aborted]_vars

\* C7: a request that is in flight and not aborted implies isLoading.
C7_OutstandingImpliesLoading ==
  (\E r \in requests : ~r.aborted) => state.isLoading

\* The arguments of an askQuestion call that must fail fast.
InvalidAsk(l) ==
  ~l.hadImage \/ trim(l.question) = <<>> \/ Len(trim(l.question)) > 500

\* C8: an askQuestion call with no image, or with a question that is empty or
\* longer than 500 characters after trimming, sets an error, starts no fetch
\* and no request, and does not enter the loading state.
C8_InvalidAskFailsFast ==
  [][(nextAsk' # nextAsk /\ InvalidAsk(lastAsk')) =>
       /\ asks' = asks
       /\ backendSent' = backendSent
       /\ chatState'.error # Null
       /\ chatState'.isLoading = chatState.isLoading]_vars

\* C9: while the image fetch or the request of the latest askQuestion call is
\* in flight, chatState holds no result and no error.
C9_NoPriorResultInFlight ==
  \A a \in asks : a.id = lastAsk.id => (chatState.result = Null /\ chatState.error = Null)

C11_SingleFlight ==
  /\ Cardinality(asks) <= 1
  /\ asks # {} => chatState.isLoading

\* The elements of a sequence.
Range(seq) ==
  { seq[i] : i \in 1..Len(seq) }

\* Tier 1 (respectively tier 2) is unconfigured or fails.
HFUnavailable(env) ==
  env.hf.kind \in { "nokey", "error" }

LocalUnavailable(env) ==
  env.local.kind \in { "nourl", "error" }

\* C12: the reply of the resolver holds at most 3 suggestions, whatever the
\* partial and whatever the external services do, and is empty when no tier
\* yields anything.
C12_AtMostThree ==
  resolved.called =>
    /\ Len(resolved.reply.suggestions) <= 3
    /\ ( /\ Len(resolved.partial) >= 3
         /\ callHuggingFaceModel(resolved.partial, resolved.env.hf) = <<>>
         /\ tryLocalModel(resolved.partial, resolved.env.local) = <<>>
         /\ getPatternBasedSuggestions(resolved.partial) = <<>> )
       => resolved.reply.suggestions = <<>>

C14_PatternNeverEmpty ==
  ( /\ resolved.called
    /\ Len(resolved.partial) >= 3
    /\ HFUnavailable(resolved.env)
    /\ LocalUnavailable(resolved.env) )
  => resolved.reply.suggestions # <<>>

\* The partial is as the controller sends it (trimmed), reaches the resolver,
\* and its lower-cased form contains no table key; tiers 1 and 2 are
\* unavailable.
NoKeyCase ==
  /\ resolved.called
  /\ Len(resolved.partial) >= 3
  /\ trim(resolved.partial) = resolved.partial
  /\ \A i \in 1..Len(patterns) : ~includes(toLowerCase(resolved.partial), patterns[i].key)
  /\ HFUnavailable(resolved.env)
  /\ LocalUnavailable(resolved.env)

\* The reply is the partial followed by each of the three fixed suffixes.
ThreeSynthesized ==
  /\ Len(resolved.reply.suggestions) = 3
  /\ \A i \in 1..3 :
       resolved.reply.suggestions[i] = trim(resolved.partial) \o defaultSuffixes[i]

\* C15 as stated: every partial without a table key yields exactly 3
\* synthesized completions.
C15_AlwaysThreeSynthesized ==
  NoKeyCase => ThreeSynthesized

\* C15 amended: every partial of at most 74 characters without a table key
\* yields exactly 3 synthesized completions.
C15_ThreeSynthesizedUpTo74 ==
  (NoKeyCase /\ Len(resolved.partial) <= 74) => ThreeSynthesized

\* "XYZ" was resolved by the default completions.
C15_Witness ==
  /\ NoKeyCase
  /\ resolved.partial = << "X", "Y", "Z" >>
  /\ ThreeSynthesized

\* The index the claim gives for a key press from index i in a list of n items.
ExpectedIndex(direction, i, n) ==
  IF direction = "down"
  THEN (IF i = -1 THEN 0 ELSE IF i < n - 1 THEN i + 1 ELSE -1)
  ELSE (IF i = -1 THEN n - 1 ELSE IF i = 0 THEN -1 ELSE i - 1)

\* C16: on a visible list of n >= 1 items, down maps -1 to 0, i < n-1 to i+1
\* and n-1 to -1; up maps -1 to n-1, 0 to -1 and i to i-1; suggestions,
\* isLoading and showSuggestions are unchanged.
C16_NavigationTransitions ==
  [][\A direction \in { "down", "up" } :
       ( /\ state.showSuggestions
         /\ Len(state.suggestions) >= 1
         /\ navigateSuggestions(direction) )
       => /\ state'.selectedIndex =
               ExpectedIndex(direction, state.selectedIndex, Len(state.suggestions))
          /\ state'.suggestions = state.suggestions
          /\ state'.isLoading = state.isLoading
          /\ state'.showSuggestions = state.showSuggestions]_vars

\* The second of three displayed items is selected.
C16_Witness ==
  /\ state.showSuggestions
  /\ Len(state.suggestions) = 3
  /\ state.selectedIndex = 1

\* The index after k presses of the same key.
RECURSIVE Pressed(_, _, _, _)
Pressed(direction, k, i, n) ==
  IF k = 0 THEN i ELSE Pressed(direction, k - 1, navigatedIndex(direction, i, n), n)

\* C17: on a visible list of n >= 1 items, from every index in -1..n-1,
\* n+1 presses of down (of up) return to the index, and up undoes down and
\* down undoes up.
C17_NavigationCyclic ==
  LET n == Len(state.suggestions)
  IN  (state.showSuggestions /\ n >= 1) =>
        \A i \in -1..(n - 1) :
          /\ Pressed("down", n + 1, i, n) = i
          /\ Pressed("up", n + 1, i, n) = i
          /\ navigatedIndex("up", navigatedIndex("down", i, n), n) = i
          /\ navigatedIndex("down", navigatedIndex("up", i, n), n) = i

\* The last of three displayed items is selected.
C17_Witness ==
  /\ state.showSuggestions
  /\ Len(state.suggestions) = 3
  /\ state.selectedIndex = 2

\* C18: selectSuggestion() without index while 0 <= selectedIndex < length
\* returns suggestions[selectedIndex]; afterwards selectedIndex = -1 and
\* showSuggestions = false, suggestions and isLoading unchanged.
C18_CommitSelected ==
  [][( /\ state.selectedIndex >= 0
       /\ state.selectedIndex < Len(state.suggestions)
       /\ selectSuggestion(<<>>) )
     => /\ selectSuggestionReturn(<<>>) = << state.suggestions[state.selectedIndex + 1] >>
        /\ state'.selectedIndex = -1
        /\ ~state'.showSuggestions
        /\ state'.suggestions = state.suggestions
        /\ state'.isLoading = state.isLoading]_vars

\* A suggestion other than the first was committed into the question field.
C18_Witness ==
  /\ Len(state.suggestions) >= 2
  /\ \E k \in 2..Len(state.suggestions) : question = state.suggestions[k]
  /\ ~state.showSuggestions
  /\ state.selectedIndex = -1

\* The argument lists of selectSuggestion that must return null.
NullCommit(args) ==
  \/ args # <<>> /\ (args[1] < 0 \/ args[1] >= Len(state.suggestions))
  \/ args = <<>> /\ state.selectedIndex = -1

\* C19: selectSuggestion with an index outside 0..length-1, or without index
\* while selectedIndex = -1, returns null and leaves suggestions, isLoading
\* and selectedIndex unchanged.
C19_CommitNothing ==
  [][\A args \in { <<>> } \cup { << i >> : i \in -1..3 } :
       (NullCommit(args) /\ selectSuggestion(args))
       => /\ selectSuggestionReturn(args) = <<>>
          /\ state'.suggestions = state.suggestions
          /\ state'.isLoading = state.isLoading
          /\ state'.selectedIndex = state.selectedIndex]_vars

\* A single item is displayed and selected: every index but 0 is out of range.
C19_Witness ==
  /\ state.showSuggestions
  /\ Len(state.suggestions) = 1
  /\ state.selectedIndex = 0

\* C20: selectedIndex is -1 or the index of an item of suggestions.
C20_SelectedInRange ==
  /\ -1 <= state.selectedIndex
  /\ state.selectedIndex < Len(state.suggestions)

\* C21: navigateSuggestions while suggestions is empty or showSuggestions is
\* false changes nothing of the suggestion state, selectedIndex included.
C21_NavigationNoOp ==
  [][\A direction \in { "down", "up" } :
       ( /\ ~state.showSuggestions \/ Len(state.suggestions) = 0
         /\ navigateSuggestions(direction) )
       => state' = state]_vars

\* A list of several items is known but hidden: navigation would move the index.
C21_Witness ==
  /\ ~state.showSuggestions
  /\ Len(state.suggestions) >= 2

\* C22: the continuation of a request that failed in transport, was answered
\* with a non-OK status or with success = false, or was aborted, leaves
\* suggestions empty, showSuggestions false and isLoading false, and sets no
\* error: the hook state has no error field and chatState is untouched.
C22_FailureClearsSilently ==
  [][\A r \in requests :
       ( \/ fetchRejected(r)
         \/ fetchAborted(r)
         \/ \E env \in HookEnvs :
              /\ LET data == suggestionsPOST(trim(r.text), env)
                 IN  ~data.ok \/ ~data.success
              /\ fetchReplied(r, env) )
       => /\ state'.suggestions = <<>>
          /\ ~state'.showSuggestions
          /\ ~state'.isLoading
          /\ DOMAIN state' = { "suggestions", "isLoading", "selectedIndex", "showSuggestions" }
          /\ chatState' = chatState]_vars

\* The request for the text of three spaces (partial "") was sent after a
\* list had been obtained, it has concluded, and nothing is displayed.
C22_Witness ==
  /\ \E m, k \in sent : m.partial = <<>> /\ k.call < m.call /\ k.partial # <<>>
  /\ requests = {}
  /\ timers = {}
  /\ state.suggestions = <<>>
  /\ ~state.showSuggestions
  /\ ~state.isLoading

\* C23: while a request that is not aborted stays outstanding and a list is
\* displayed, no step other than the user's hideSuggestions changes
\* suggestions or showSuggestions.
C23_StaleButDisplayed ==
  [][( /\ state.showSuggestions
       /\ state.suggestions # <<>>
       /\ \E r \in requests : ~r.aborted /\ r \in requests'
       /\ ~hideSuggestions )
     => /\ state'.suggestions = state.suggestions
        /\ state'.showSuggestions = state.showSuggestions]_vars

\* C24: handleImageSelect and handleImageClear replace currentImage and
\* imageData and leave result = null, error = null and isLoading = false,
\* whatever chatState was.
C24_ImageChangeResets ==
  [][/\ \A data \in Images :
          handleImageSelect(data) =>
            /\ chatState' = [result |-> Null, isLoading |-> FALSE, error |-> Null]
            /\ imageData' = data
            /\ currentImage' = data.preview
     /\ handleImageClear =>
            /\ chatState' = [result |-> Null, isLoading |-> FALSE, error |-> Null]
            /\ imageData' = NoImageData
            /\ currentImage' = Null]_vars

\* The image was changed while an ask was in flight: the loading state was reset.
C24_Witness ==
  /\ asks # {}
  /\ chatState = [result |-> Null, isLoading |-> FALSE, error |-> Null]

\* C25: retry sets error to null, leaves result, isLoading and the image
\* unchanged, and neither starts a fetch nor sends a request.
C25_RetryClearsOnlyError ==
  [][retry =>
       /\ chatState'.error = Null
       /\ chatState'.result = chatState.result
       /\ chatState'.isLoading = chatState.isLoading
       /\ currentImage' = currentImage
       /\ imageData' = imageData
       /\ asks' = asks
       /\ backendSent' = backendSent]_vars

\* The error of an ask made without image was cleared: no image was ever
\* selected, so only retry can have cleared it.
C25_Witness ==
  /\ lastAsk.id >= 1
  /\ generation = 0
  /\ chatState.error = Null

\* C26: a reply of /api/gemini that reports failure yields the error of the
\* reply when it has one and "Failed to analyze image" otherwise; a rejection
\* with a value that carries no message yields "Network error occurred"; in
\* each case result = null and isLoading = false.
C26_BackendFailureMessage ==
  [][\A a \in asks :
       /\ \A g \in GeminiOutcomes :
            LET data == geminiPOST(a.image, a.question, g)
            IN  (askReplied(a, g) /\ ~data.success) =>
                  chatState' = [result |-> Null, isLoading |-> FALSE,
                                error |-> IF data.error \notin { Null, "" }
                                          THEN data.error
                                          ELSE "Failed to analyze image"]
       /\ askRejected(a, Null) =>
            chatState' = [result |-> Null, isLoading |-> FALSE,
                          error |-> "Network error occurred"]]_vars

\* A reply that reported failure without a message is displayed.
C26_Witness ==
  /\ asks = {}
  /\ chatState = [result |-> Null, isLoading |-> FALSE, error |-> "Failed to analyze image"]

\* C27: a reply of the vision service whose first candidate has finishReason
\* SAFETY (RECITATION) makes callGeminiVision return success = false with the
\* safety (recitation) message, and chatState shows that message as error.
C27_PolicyBlockIsError ==
  [][\A a \in asks, g \in GeminiOutcomes :
       ( /\ g.kind = "reply"
         /\ g.candidates
         /\ g.finishReason \in { "SAFETY", "RECITATION" }
         /\ geminiPOST(a.image, a.question, g).called
         /\ askReplied(a, g) )
       => /\ ~callGeminiVision(a.image, a.question, g).success
          /\ chatState' = [result |-> Null, isLoading |-> FALSE,
                           error |-> IF g.finishReason = "SAFETY"
                                     THEN SafetyMessage
                                     ELSE RecitationMessage]]_vars

\* C28: every request sent to /api/suggestions carries a partial of at least
\* 3 characters.
C28_PartialAtLeastThree ==
  \A m \in sent : Len(m.partial) >= 3

\* C29: suggestions holds at most 3 strings, no two of them equal.
C29_AtMostThreeDistinct ==
  /\ Len(state.suggestions) <= 3
  /\ \A i, j \in 1..Len(state.suggestions) :
       state.suggestions[i] = state.suggestions[j] => i = j

\* The table keys in the order the claim gives.
KeyOrder ==
  << <<"w","h","a","t">>, <<"h","o","w">>, <<"w","h","e","r","e">>,
     <<"d","e","s","c","r","i","b","e">>, <<"i","d","e","n","t","i","f","y">>,
     <<"c","o","u","n","t">>, <<"r","e","a","d">> >>

\* The first n elements of a sequence.
Capped(seq, n) ==
  [i \in 1..(IF Len(seq) < n THEN Len(seq) ELSE n) |-> seq[i]]

\* C30: when the pattern tier answers a partial in which a table key occurs,
\* the reply is, for the first key in the order what, how, where, describe,
\* identify, count, read that occurs in the lower-cased partial, the canned
\* questions of that key that contain the lower-cased partial, in table
\* order, at most 3; for "what obj" it is non-empty and its first entry
\* contains the partial.
C30_PatternTier ==
  LET lower == toLowerCase(resolved.partial)
      keys  == { i \in 1..Len(KeyOrder) : includes(lower, KeyOrder[i]) }
      Contains(s) == includes(toLowerCase(s), lower)
  IN  ( /\ resolved.called
        /\ Len(resolved.partial) >= 3
        /\ HFUnavailable(resolved.env)
        /\ LocalUnavailable(resolved.env)
        /\ keys # {} )
      => LET k == CHOOSE i \in keys : \A j \in keys : i <= j
         IN  /\ patterns[k].key = KeyOrder[k]
             /\ resolved.reply.suggestions =
                  Capped(SelectSeq(patterns[k].suggestions, Contains), 3)
             /\ resolved.partial = <<"w","h","a","t"," ","o","b","j">> =>
                  /\ resolved.reply.suggestions # <<>>
                  /\ Contains(resolved.reply.suggestions[1])

\* "count how many" was answered by the pattern tier: the key how precedes
\* the key count, and no canned question of how contains the partial.
C30_Witness ==
  /\ resolved.called
  /\ resolved.partial = <<"c","o","u","n","t"," ","h","o","w"," ","m","a","n","y">>
  /\ HFUnavailable(resolved.env)
  /\ LocalUnavailable(resolved.env)
  /\ resolved.reply.suggestions = <<>>

\* C31: whatever the Hugging Face request does, callHuggingFaceModel returns
\* at most 3 candidates, each strictly longer than the partial and of at most
\* 100 characters, and the empty list when the request fails in transport, by
\* its status or in parsing; a non-empty list is the reply of the endpoint.
C31_RemoteTierFilter ==
  LET out == callHuggingFaceModel(resolved.partial, resolved.env.hf)
  IN  ( /\ resolved.called
        /\ Len(resolved.partial) >= 3
        /\ resolved.env.hf.kind # "nokey" )
      => /\ Len(out) <= 3
         /\ \A i \in 1..Len(out) :
              Len(out[i]) > Len(resolved.partial) /\ Len(out[i]) <= 100
         /\ resolved.env.hf.kind = "error" => out = <<>>
         /\ out # <<>> => resolved.reply.suggestions = out

\* The endpoint generated "what is it? " for the partial "what is it?": the
\* candidate, trimmed, is as long as the partial and was not returned.
C31_Witness ==
  /\ resolved.called
  /\ resolved.env.hf.kind = "text"
  /\ trim(resolved.env.hf.text) = resolved.partial
  /\ Len(resolved.partial) >= 3
  /\ resolved.reply.tiers[1] = "hf"
  /\ Len(resolved.reply.tiers) > 1

\* C32: at most one timeout is pending, and it is the one scheduled by the
\* latest getSuggestions call; a timeout that was superseded never invoked
\* fetchSuggestions, and each getSuggestions call invoked it at most once.
C32_SingleTimer ==
  /\ Cardinality(timers) <= 1
  /\ \A t \in timers : t.id = debounceRef
  /\ \A f \in fetchCalls : f.call = f.last /\ \A t \in timers : t.id # f.call
  /\ \A f, g \in fetchCalls : f.call = g.call => f = g
  /\ Cardinality(fetchCalls) + Cardinality(timers) <= nextCall - 1

\* Three getSuggestions calls were made in a burst: one timeout is pending
\* and no resolution was triggered.
C32_Witness ==
  /\ nextCall = 4
  /\ Cardinality(timers) = 1
  /\ fetchCalls = {}

\* C33: navigateSuggestions, selectSuggestion and hideSuggestions leave
\* suggestions and isLoading unchanged, and hideSuggestions leaves
\* selectedIndex = -1 and showSuggestions = false.
C33_SelectionFrame ==
  [][/\ \A direction \in { "down", "up" } :
          navigateSuggestions(direction) =>
            state'.suggestions = state.suggestions /\ state'.isLoading = state.isLoading
     /\ \A args \in { <<>> } \cup { << i >> : i \in -1..3 } :
          selectSuggestion(args) =>
            state'.suggestions = state.suggestions /\ state'.isLoading = state.isLoading
     /\ hideSuggestions =>
          /\ state'.suggestions = state.suggestions
          /\ state'.isLoading = state.isLoading
          /\ state'.selectedIndex = -1
          /\ ~state'.showSuggestions]_vars

\* A list was dismissed or committed while a request was outstanding: the
\* list is kept, hidden, and isLoading is still true.
C33_Witness ==
  /\ state.suggestions # <<>>
  /\ ~state.showSuggestions
  /\ state.selectedIndex = -1
  /\ state.isLoading

\* The bodies the endpoint must reject.
InvalidBody(b) ==
  \/ b.malformed
  \/ b.image.type # "string"
  \/ b.question.type # "string"
  \/ b.image.text = ""
  \/ b.question.text = <<>>
  \/ Len(b.question.text) > 500

\* C34: POST /api/gemini answers a body whose image or question is absent,
\* not a string or empty, or whose question is longer than 500 characters,
\* with success = false and an error message, without calling
\* callGeminiVision; every call of callGeminiVision has a non-empty image and
\* a question of 1 to 500 characters.
C34_RouteValidates ==
  answered.called =>
    /\ InvalidBody(answered.body) =>
         /\ ~answered.reply.success
         /\ answered.reply.error \notin { Null, "" }
         /\ ~answered.reply.called
    /\ answered.reply.called =>
         /\ answered.body.image.type = "string"
         /\ answered.body.image.text # ""
         /\ answered.body.question.type = "string"
         /\ Len(answered.body.question.text) \in 1..500

\* A question of exactly 500 characters reached the vision service.
C34_Witness ==
  /\ answered.called
  /\ answered.body.question.type = "string"
  /\ Len(answered.body.question.text) = 500
  /\ answered.reply.called

\* C35: while the list is displayed, Enter or Tab with selectedIndex >= 0 puts
\* the selected suggestion into the question field and calls askQuestion
\* not; Enter without Shift with selectedIndex = -1 or without displayed list
\* calls askQuestion with the trimmed question when that is not empty and the
\* box is not disabled, and then empties the field and the suggestion state,
\* and does nothing otherwise.
C35_CommitVersusSubmit ==
  [][\A key \in Keys, shiftKey \in BOOLEAN :
       handleKeyDown(key, shiftKey) =>
         LET listed == state.showSuggestions /\ Len(state.suggestions) > 0
         IN  /\ (listed /\ key \in { "Tab", "Enter" } /\ state.selectedIndex >= 0) =>
                  /\ question' = state.suggestions[state.selectedIndex + 1]
                  /\ nextAsk' = nextAsk
                  /\ lastAsk' = lastAsk
                  /\ chatState' = chatState
             /\ (key = "Enter" /\ ~shiftKey /\ (~listed \/ state.selectedIndex = -1)) =>
                  IF trim(question) # <<>> /\ ~chatState.isLoading
                  THEN /\ nextAsk' = nextAsk + 1
                       /\ lastAsk'.question = trim(question)
                       /\ question' = <<>>
                       /\ state' = [suggestions |-> <<>>, isLoading |-> FALSE,
                                    selectedIndex |-> -1, showSuggestions |-> FALSE]
                  ELSE /\ nextAsk' = nextAsk
                       /\ question' = question]_vars

\* A suggestion was put into the field and then submitted: the question asked
\* is longer than every text typed, the field and the suggestion state are empty.
C35_Witness ==
  /\ lastAsk.id >= 1
  /\ Len(lastAsk.question) > 4
  /\ question = <<>>
  /\ state = [suggestions |-> <<>>, isLoading |-> FALSE, selectedIndex |-> -1,
              showSuggestions |-> FALSE]

\* C36: at most one of isLoading, result # null and error # null holds.
C36_OneStatus ==
  /\ ~(chatState.isLoading /\ chatState.result # Null)
  /\ ~(chatState.isLoading /\ chatState.error # Null)
  /\ ~(chatState.result # Null /\ chatState.error # Null)

\* C37: after clearSuggestions, as long as getSuggestions is not called again,
\* the suggestion state is empty. In the question box the field is empty
\* exactly from a clearSuggestions call (on submit, or on a change to the
\* empty text) to the next getSuggestions call: a change to a non-empty text
\* is the only caller of getSuggestions, and a commit fills the field.
C37_ClearedStaysEmpty ==
  question = <<>> =>
    state = [suggestions |-> <<>>, isLoading |-> FALSE, selectedIndex |-> -1,
             showSuggestions |-> FALSE]

\* C38: showSuggestions implies that suggestions is not empty.
C38_VisibleImpliesItems ==
  state.showSuggestions => state.suggestions # <<>>

\* The request for "ab " (partial "ab", answered with an empty list) has
\* concluded after a list had been displayed, and nothing is displayed.
C38_Witness ==
  /\ \E m, k \in sent : Len(m.partial) = 2 /\ k.call < m.call /\ Len(k.partial) >= 3
  /\ requests = {}
  /\ timers = {}
  /\ ~state.showSuggestions
  /\ state.suggestions = <<>>

\* C39: when every pending timeout expires, every request settles and
\* getSuggestions is called finitely often, isLoading is eventually false
\* for ever.
C39_LoadingTerminates ==
  <>[](~state.isLoading)

\* Everything has settled after a request: nothing is pending, a list is
\* kept and isLoading is false.
C39_Witness ==
  /\ sent # {}
  /\ requests = {}
  /\ timers = {}
  /\ state.suggestions # <<>>
  /\ ~state.isLoading

\* C40: isLoading is true only while an ask is in flight, and when every
\* image fetch and every request settles, each loading state is followed by
\* a state that is not loading and holds a result, an error or neither.
C40_AskTerminates ==
  /\ [](chatState.isLoading => asks # {})
  /\ chatState.isLoading ~>
       (~chatState.isLoading /\ ~(chatState.result # Null /\ chatState.error # Null))

\* An ask made with an image has settled with an answer.
C40_Witness ==
  /\ lastAsk.hadImage
  /\ asks = {}
  /\ chatState = [result |-> "a cat", isLoading |-> FALSE, error |-> Null]

====
